---- MODULE Spec2Model ----
(***************************************************************************)
(* Model of the three console programs of the repository:                  *)
(*   calc.py          the calculator loop (run_calculator)                 *)
(*   contact_book.py  the contact book, persisted as CSV                   *)
(*   todo_app.py      the task list, persisted as JSON                     *)
(* A behaviour is one run of one of the programs (app).  Text is a         *)
(* sequence of one-character strings, so that strip, lower, replace, the   *)
(* regular expressions and the substring test are computed as the code     *)
(* computes them.  input() is modelled as returning a line of text; the    *)
(* one place where the source catches an exception of input()              *)
(* (update_contact, lines 164-169) also models the raising outcome.        *)
(***************************************************************************)
EXTENDS Integers, Sequences, FiniteSets, TLC

VARIABLES
    app,        \* which program this run is: "calc", "contacts" or "todo"
    out,        \* the messages the last step printed (labels of the print calls)
    \* ---- todo_app.py
    tPc,        \* "start" (before load_tasks), "menu", "done"
    tasks,      \* main_menu's list `tasks`
    todoFile,   \* TODO_FILE on disk
    issued,     \* history: ids given to tasks so far in this session
    todoFile0,  \* history: TODO_FILE as it was when the session started
    tLoadFailed, \* history: load_tasks took its except branch
    \* ---- contact_book.py
    cPc,          \* "start", "menu", "add_name", "add_phone", "add_email",
                  \* "add_address", "update_field", "update_confirm", "done"
    contacts,     \* main_menu's list `contacts`
    contactsFile, \* CONTACTS_FILE on disk
    new_contact,  \* add_contact's dict under construction (the fields entered so far)
    contact_index, \* update_contact's 0-based index
    field,        \* update_contact's loop position in CONTACT_FIELDS (1..4)
    new_value,    \* update_contact's new_value while it is being confirmed
    found_contacts, \* search_contact's result list
    term,         \* search_contact's term
    index_str,    \* update_contact's and delete_contact's index_str
    \* ---- calc.py
    kPc,        \* the prompt run_calculator waits at: "promptA", "promptOp",
                \* "promptB"; "exited" after sys.exit
    last_input, \* the line input() returned last (input_a, operation or input_b)
    number_a,   \* run_calculator's number_a
    operation,  \* run_calculator's operation
    result,     \* the outcome of the last calculation
    exit_code,  \* the process's exit code, -1 while it runs
    \* ---- save followed by load, on its own
    rtPc,       \* "input", "saved", "loaded"
    rtRecords,  \* the records given to save
    rtFile,     \* the backing file
    rtLoaded    \* what load returned

todoVars == <<tPc, tasks, todoFile, issued, todoFile0, tLoadFailed>>

contactVars ==
    <<cPc, contacts, contactsFile, new_contact, contact_index, field, new_value,
      found_contacts, term, index_str>>

calcVars == <<kPc, last_input, number_a, operation, result, exit_code>>

rtVars == <<rtPc, rtRecords, rtFile, rtLoaded>>

vars == <<app, out, todoVars, contactVars, calcVars, rtVars>>

(***************************************************************************)
(* Text                                                                    *)
(***************************************************************************)
Digits == {"0", "1", "2", "3", "4", "5", "6", "7", "8", "9"}

Whitespace == {" ", "\t"}

DigitVal(c) ==
    CASE c = "0" -> 0 [] c = "1" -> 1 [] c = "2" -> 2 [] c = "3" -> 3
      [] c = "4" -> 4 [] c = "5" -> 5 [] c = "6" -> 6 [] c = "7" -> 7
      [] c = "8" -> 8 [] c = "9" -> 9

RECURSIVE LStrip(_)
LStrip(s) ==
    IF s # <<>> /\ Head(s) \in Whitespace THEN LStrip(Tail(s)) ELSE s

RECURSIVE RStrip(_)
RStrip(s) ==
    IF s # <<>> /\ s[Len(s)] \in Whitespace
    THEN RStrip(SubSeq(s, 1, Len(s) - 1))
    ELSE s

\* str.strip()
Strip(s) == RStrip(LStrip(s))

RECURSIVE DecimalValue(_)
DecimalValue(s) ==
    IF s = <<>> THEN 0
    ELSE 10 * DecimalValue(SubSeq(s, 1, Len(s) - 1)) + DigitVal(s[Len(s)])

AllDigits(s) == s # <<>> /\ \A i \in 1..Len(s) : s[i] \in Digits

\* int(text): an optional sign and decimal digits; anything else is ValueError.
IntParses(s) ==
    LET t == Strip(s) IN
    \/ AllDigits(t)
    \/ t # <<>> /\ Head(t) \in {"+", "-"} /\ AllDigits(Tail(t))

IntValue(s) ==
    LET t == Strip(s) IN
    IF Head(t) = "-" THEN 0 - DecimalValue(Tail(t))
    ELSE IF Head(t) = "+" THEN DecimalValue(Tail(t))
    ELSE DecimalValue(t)

UpperLetters ==
    <<"A", "B", "C", "D", "E", "F", "G", "H", "I", "J", "K", "L", "M",
      "N", "O", "P", "Q", "R", "S", "T", "U", "V", "W", "X", "Y", "Z">>

LowerLetters ==
    <<"a", "b", "c", "d", "e", "f", "g", "h", "i", "j", "k", "l", "m",
      "n", "o", "p", "q", "r", "s", "t", "u", "v", "w", "x", "y", "z">>

LowerChar(c) ==
    IF \E i \in 1..Len(UpperLetters) : UpperLetters[i] = c
    THEN LowerLetters[CHOOSE i \in 1..Len(UpperLetters) : UpperLetters[i] = c]
    ELSE c

\* str.lower()
Lower(s) == [i \in 1..Len(s) |-> LowerChar(s[i])]

(***************************************************************************)
(* todo_app.py                                                             *)
(***************************************************************************)
MaxTaskId == 5

\* datetime.now().strftime(DATE_FORMAT)
Today == <<"2", "0", "2", "5", "-", "0", "1", "-", "0", "2">>

TaskKeys == <<"id", "description", "done", "created_on", "due_date">>

\* ---- DATE_FORMAT "%Y-%m-%d" as datetime.strptime reads it
RECURSIVE SplitOn(_, _)
SplitOn(s, sep) ==
    IF \A i \in 1..Len(s) : s[i] # sep THEN <<s>>
    ELSE LET k == CHOOSE i \in 1..Len(s) :
                     s[i] = sep /\ \A j \in 1..(i - 1) : s[j] # sep
         IN <<SubSeq(s, 1, k - 1)>> \o SplitOn(SubSeq(s, k + 1, Len(s)), sep)

IsLeap(y) == (y % 4 = 0 /\ y % 100 # 0) \/ y % 400 = 0

DaysIn(y, m) ==
    IF m = 2 THEN (IF IsLeap(y) THEN 29 ELSE 28)
    ELSE IF m \in {4, 6, 9, 11} THEN 30 ELSE 31

StrptimeOk(s) ==
    LET p == SplitOn(s, "-") IN
    /\ Len(p) = 3
    /\ AllDigits(p[1]) /\ Len(p[1]) = 4
    /\ AllDigits(p[2]) /\ Len(p[2]) \in {1, 2}
    /\ AllDigits(p[3]) /\ Len(p[3]) \in {1, 2}
    /\ DecimalValue(p[1]) >= 1
    /\ DecimalValue(p[2]) \in 1..12
    /\ DecimalValue(p[3]) \in 1..DaysIn(DecimalValue(p[1]), DecimalValue(p[2]))

\* ---- the JSON document: a list of objects, each a list of key/value pairs
JsonObject(task) == [k \in 1..Len(TaskKeys) |-> <<TaskKeys[k], task[TaskKeys[k]]>>]

\* json.dump(tasks_list, file, indent=4)
JsonDump(tasks_list) ==
    [kind |-> "json", objs |-> [i \in 1..Len(tasks_list) |-> JsonObject(tasks_list[i])]]

ObjectDict(obj) ==
    [key \in {obj[j][1] : j \in 1..Len(obj)} |->
        LET j == CHOOSE j \in 1..Len(obj) :
                     obj[j][1] = key /\ \A h \in (j + 1)..Len(obj) : obj[h][1] # key
        IN obj[j][2]]

\* json.loads(content), for a document that decodes
JsonLoads(doc) == [i \in 1..Len(doc.objs) |-> ObjectDict(doc.objs[i])]

JsonDecodes(doc) == doc.kind = "json"

\* load_tasks raises inside its try block: open() fails or json.loads fails
LoadTasksRaises(file) ==
    file.exists /\ (~file.readable \/ (file.doc.kind # "empty" /\ ~JsonDecodes(file.doc)))

LoadTasks(file) ==
    IF ~file.exists THEN <<>>
    ELSE IF ~file.readable THEN <<>>
    ELSE IF file.doc.kind = "empty" THEN <<>>
    ELSE IF JsonDecodes(file.doc) THEN JsonLoads(file.doc)
    ELSE <<>>

SaveTasks(file, tasks_list) ==
    IF file.writable
    THEN [file EXCEPT !.exists = TRUE, !.readable = TRUE, !.doc = JsonDump(tasks_list)]
    ELSE file

\* what save_tasks and the caller's confirmation print
SaveTasksOut(file, confirmation) ==
    IF file.writable THEN {confirmation} ELSE {"Could not save tasks", confirmation}

RECURSIVE MaxOf(_)
MaxOf(S) ==
    LET x == CHOOSE x \in S : TRUE IN
    IF S = {x} THEN x
    ELSE LET m == MaxOf(S \ {x}) IN IF x > m THEN x ELSE m

TaskIds(tasks_list) == {tasks_list[i].id : i \in 1..Len(tasks_list)}

\* a faulty get_next_id: the number of tasks + 1
get_next_id_by_count(tasks_list) == Len(tasks_list) + 1

get_next_id(tasks_list) ==
    IF tasks_list = <<>> THEN 1 ELSE MaxOf(TaskIds(tasks_list)) + 1

\* find_task_by_id: the position of the first task with that id, 0 for None
find_task_by_id(tasks_list, task_id) ==
    IF ~IntParses(task_id) THEN 0
    ELSE LET n == IntValue(task_id)
             hits == {i \in 1..Len(tasks_list) : tasks_list[i].id = n}
         IN IF hits = {} THEN 0 ELSE CHOOSE i \in hits : \A j \in hits : i <= j

\* a faulty delete: the remaining tasks are renumbered 1..n
WithoutIdRenumbered(tasks_list, id) ==
    LET kept == SelectSeq(tasks_list, LAMBDA t : t.id # id)
    IN [i \in 1..Len(kept) |-> [kept[i] EXCEPT !.id = i]]

RECURSIVE WithoutId(_, _)
WithoutId(tasks_list, id) ==
    IF tasks_list = <<>> THEN <<>>
    ELSE IF Head(tasks_list).id = id THEN WithoutId(Tail(tasks_list), id)
    ELSE <<Head(tasks_list)>> \o WithoutId(Tail(tasks_list), id)

\* ---- what the user may type
MenuLines == {<<"1">>, <<"2">>, <<" ", "3">>, <<"4">>, <<"5">>, <<"6">>, <<"7">>, <<"x">>}

DescriptionLines == {<<" ", " ">>, <<" ", "b", "u", "y">>}

DueLines ==
    { <<>>,
      <<"2", "0", "2", "5", "-", "0", "2", "-", "2", "8">>,
      <<"2", "0", "2", "5", "-", "0", "2", "-", "3", "0">> }

\* ids typed at delete_task's prompt, and at mark_task_done's
DeleteIdLines == {<<c>> : c \in {"1", "2", "3", "4", "5", "6", "7"}} \cup {<<"x">>}

MarkIdLines == {<<" ", "1">>, <<"9">>, <<>>, <<"1", ".", "0">>}

\* ---- TODO_FILE when the session starts
SomeTask(id, done) ==
    [id |-> id, description |-> <<"b", "u", "y">>, done |-> done,
     created_on |-> Today, due_date |-> <<>>]

FourTasks == <<SomeTask(1, TRUE), SomeTask(2, FALSE), SomeTask(3, FALSE), SomeTask(4, FALSE)>>

AbsentFile == [exists |-> FALSE, readable |-> TRUE, writable |-> TRUE, doc |-> [kind |-> "empty"]]

InitialTodoFiles ==
    { AbsentFile,
      [exists |-> TRUE, readable |-> TRUE, writable |-> TRUE, doc |-> [kind |-> "empty"]],
      [exists |-> TRUE, readable |-> TRUE, writable |-> TRUE, doc |-> JsonDump(FourTasks)],
      [exists |-> TRUE, readable |-> TRUE, writable |-> FALSE,
       doc |-> JsonDump(SubSeq(FourTasks, 1, 2))],
      [exists |-> TRUE, readable |-> TRUE, writable |-> TRUE,
       doc |-> [kind |-> "garbage", objs |-> JsonDump(SubSeq(FourTasks, 1, 2)).objs]] }

TodoIdle ==
    /\ tPc = "start" /\ tasks = <<>> /\ todoFile = AbsentFile
    /\ issued = {} /\ todoFile0 = AbsentFile /\ tLoadFailed = FALSE

TodoInit ==
    /\ tPc = "start" /\ tasks = <<>>
    /\ todoFile \in InitialTodoFiles
    /\ issued = {} /\ todoFile0 = todoFile /\ tLoadFailed = FALSE

\* main_menu, line 122
TodoLoad ==
    /\ app = "todo" /\ tPc = "start"
    /\ tasks' = LoadTasks(todoFile)
    /\ tLoadFailed' = LoadTasksRaises(todoFile)
    /\ issued' = TaskIds(LoadTasks(todoFile))
    /\ out' = IF LoadTasksRaises(todoFile) THEN {"Error loading tasks"} ELSE {}
    /\ tPc' = "menu"
    /\ UNCHANGED <<app, contactVars, calcVars, rtVars, todoFile, todoFile0>>

\* choice '1': view_tasks
TodoView ==
    /\ app = "todo" /\ tPc = "menu"
    /\ \E choice \in MenuLines : Strip(choice) = <<"1">>
    /\ out' = IF tasks = <<>> THEN {"Your To-Do List is empty"} ELSE {"Current To-Do List"}
    /\ UNCHANGED <<app, contactVars, calcVars, rtVars, todoVars>>

\* add_task, lines 51-59: the due date kept for a line typed at the prompt
DueDateOf(due_line) ==
    LET due_date_input == Strip(due_line) IN
    IF due_date_input # <<>> /\ StrptimeOk(due_date_input) THEN due_date_input ELSE <<>>

DueDateRejected(due_line) == Strip(due_line) # <<>> /\ ~StrptimeOk(Strip(due_line))

\* choice '2': add_task
TodoAdd ==
    /\ app = "todo" /\ tPc = "menu"
    /\ \E choice \in MenuLines : Strip(choice) = <<"2">>
    /\ \E description_line \in DescriptionLines, due_line \in DueLines :
         LET description == Strip(description_line)
             new_task == [id |-> get_next_id(tasks), description |-> description,
                          done |-> FALSE, created_on |-> Today,
                          due_date |-> DueDateOf(due_line)]
         IN IF description = <<>>
            THEN /\ out' = {"Task description cannot be empty"}
                 /\ UNCHANGED <<tasks, todoFile, issued>>
            ELSE /\ get_next_id(tasks) <= MaxTaskId
                 /\ tasks' = Append(tasks, new_task)
                 /\ todoFile' = SaveTasks(todoFile, tasks')
                 /\ issued' = issued \cup {new_task.id}
                 /\ out' = SaveTasksOut(todoFile, "Task added") \cup
                           (IF DueDateRejected(due_line)
                            THEN {"Invalid date format. Due date not set"} ELSE {})
    /\ UNCHANGED <<app, contactVars, calcVars, rtVars, tPc, todoFile0, tLoadFailed>>

\* choice '3': view_tasks, then mark_task_done
TodoMark ==
    /\ app = "todo" /\ tPc = "menu"
    /\ \E choice \in MenuLines : Strip(choice) = <<"3">>
    /\ \E id_line \in MarkIdLines :
         LET task_id == Strip(id_line)
             k == find_task_by_id(tasks, task_id)
         IN IF k # 0
            THEN /\ tasks' = [tasks EXCEPT ![k].done = TRUE]
                 /\ todoFile' = SaveTasks(todoFile, tasks')
                 /\ out' = SaveTasksOut(todoFile, "Task marked as done")
            ELSE /\ out' = {"Task not found"}
                 /\ UNCHANGED <<tasks, todoFile>>
    /\ UNCHANGED <<app, contactVars, calcVars, rtVars, tPc, issued, todoFile0, tLoadFailed>>

\* choice '4': view_tasks, then delete_task
TodoDelete ==
    /\ app = "todo" /\ tPc = "menu"
    /\ \E choice \in MenuLines : Strip(choice) = <<"4">>
    /\ \E id_line \in DeleteIdLines :
         LET task_id == Strip(id_line)
             k == find_task_by_id(tasks, task_id)
         IN IF k # 0
            THEN /\ tasks' = WithoutId(tasks, tasks[k].id)
                 /\ todoFile' = SaveTasks(todoFile, tasks')
                 /\ out' = SaveTasksOut(todoFile, "Task deleted")
            ELSE /\ out' = {"Task not found"}
                 /\ UNCHANGED <<tasks, todoFile>>
    /\ UNCHANGED <<app, contactVars, calcVars, rtVars, tPc, issued, todoFile0, tLoadFailed>>

\* choice '5': final save and leave the loop
TodoExit ==
    /\ app = "todo" /\ tPc = "menu"
    /\ \E choice \in MenuLines : Strip(choice) = <<"5">>
    /\ todoFile' = SaveTasks(todoFile, tasks)
    /\ out' = SaveTasksOut(todoFile, "Saving and exiting")
    /\ tPc' = "done"
    /\ UNCHANGED <<app, contactVars, calcVars, rtVars, tasks, issued, todoFile0, tLoadFailed>>

\* any other choice
TodoInvalidChoice ==
    /\ app = "todo" /\ tPc = "menu"
    /\ \E choice \in MenuLines :
         Strip(choice) \notin {<<"1">>, <<"2">>, <<"3">>, <<"4">>, <<"5">>}
    /\ out' = {"Invalid choice"}
    /\ UNCHANGED <<app, contactVars, calcVars, rtVars, todoVars>>

(***************************************************************************)
(* contact_book.py                                                         *)
(***************************************************************************)
MaxContacts == 1

CONTACT_FIELDS == <<"name", "phone", "email", "address">>

\* the header row DictWriter.writeheader() writes: the field names as text
HeaderRow ==
    << <<"n", "a", "m", "e">>, <<"p", "h", "o", "n", "e">>,
       <<"e", "m", "a", "i", "l">>, <<"a", "d", "d", "r", "e", "s", "s">> >>

\* str.replace(ch, '')
RECURSIVE Remove(_, _)
Remove(s, ch) ==
    IF s = <<>> THEN <<>>
    ELSE IF Head(s) = ch THEN Remove(Tail(s), ch)
    ELSE <<Head(s)>> \o Remove(Tail(s), ch)

\* term in text
Contains(text, sub) ==
    \E i \in 0..(Len(text) - Len(sub)) : SubSeq(text, i + 1, i + Len(sub)) = sub

\* re.match(r"[^@]+@[^@]+\.[^@]+", value): a match of a prefix of value
EmailMatches(value) ==
    \E i \in 2..Len(value), j \in 1..Len(value) :
        /\ \A h \in 1..(i - 1) : value[h] # "@"
        /\ value[i] = "@"
        /\ j > i + 1
        /\ \A h \in (i + 1)..(j - 1) : value[h] # "@"
        /\ value[j] = "."
        /\ j < Len(value) /\ value[j + 1] # "@"

\* re.match(r"^[0-9()\s-]+$", value)
PhoneMatches(value) ==
    /\ value # <<>>
    /\ \A i \in 1..Len(value) : value[i] \in Digits \cup {"(", ")", "-"} \cup Whitespace

\* update_contact, line 163
ValidationType(f) ==
    IF CONTACT_FIELDS[f] = "phone" THEN "phone"
    ELSE IF CONTACT_FIELDS[f] = "email" THEN "email" ELSE "text"

\* get_validated_input: what one pass of its loop prints for a stripped value,
\* nothing when the value is returned
ValidationError(value, validation_type) ==
    IF value = <<>> THEN {"Input cannot be empty"}
    ELSE IF validation_type = "email" /\ ~EmailMatches(value) THEN {"Invalid email format"}
    ELSE IF validation_type = "phone" /\ ~PhoneMatches(value) THEN {"Invalid phone format"}
    ELSE {}

\* ---- the CSV file: a list of rows, each a list of four fields
RowOf(contact) == [k \in 1..Len(CONTACT_FIELDS) |-> contact[CONTACT_FIELDS[k]]]

RowDict(row) == [f \in {CONTACT_FIELDS[k] : k \in 1..Len(CONTACT_FIELDS)} |->
                    row[CHOOSE k \in 1..Len(CONTACT_FIELDS) : CONTACT_FIELDS[k] = f]]

\* a faulty save_contacts: no header row
CsvRowsNoHeader(contacts_list) == [i \in 1..Len(contacts_list) |-> RowOf(contacts_list[i])]

\* writer.writeheader(); writer.writerows(contacts_list)
CsvRows(contacts_list) ==
    <<HeaderRow>> \o [i \in 1..Len(contacts_list) |-> RowOf(contacts_list[i])]

\* the rows csv.DictReader yields before it raises (file.bad = 0: it never raises)
ReadableRows(file) ==
    IF file.bad = 0 THEN file.rows ELSE SubSeq(file.rows, 1, file.bad - 1)

LoadContactsRaises(file) == file.exists /\ (~file.readable \/ file.bad # 0)

LoadContacts(file) ==
    IF ~file.exists \/ ~file.readable THEN <<>>
    ELSE LET rows == ReadableRows(file)
             dicts == [i \in 1..Len(rows) |-> RowDict(rows[i])]
         IN IF dicts = <<>> THEN <<>>
            ELSE IF dicts[1].name # HeaderRow[1] THEN dicts
            ELSE Tail(dicts)

SaveContacts(file, contacts_list) ==
    IF file.writable
    THEN [file EXCEPT !.exists = TRUE, !.readable = TRUE, !.bad = 0,
                      !.rows = CsvRows(contacts_list)]
    ELSE file

\* what save_contacts and the caller's confirmation print
SaveContactsOut(file, confirmation) ==
    IF file.writable THEN {"Contacts saved", confirmation}
    ELSE {"Could not save contacts", confirmation}

\* search_contact's filter, lines 117-120
SearchMatches(c, t) ==
    \/ Contains(Lower(c.name), t)
    \/ Contains(Remove(Remove(c.phone, " "), "-"), t)

RECURSIVE FilterContacts(_, _)
FilterContacts(contacts_list, t) ==
    IF contacts_list = <<>> THEN <<>>
    ELSE (IF SearchMatches(Head(contacts_list), t) THEN <<Head(contacts_list)>> ELSE <<>>)
         \o FilterContacts(Tail(contacts_list), t)

\* contacts_list.pop(k - 1)
RemoveAt(s, k) == SubSeq(s, 1, k - 1) \o SubSeq(s, k + 1, Len(s))

\* a faulty range check: contact_index < len(contacts_list) alone
IndexErrorNoLowerBound(text, contacts_list) ==
    IF ~IntParses(text) THEN {"Invalid input. Please enter a number"}
    ELSE IF ~(IntValue(text) - 1 < Len(contacts_list)) THEN {"Invalid contact number"}
    ELSE {}

\* the index prompt of update_contact and delete_contact: nothing when the
\* index is accepted, else the message printed before returning
IndexError(text, contacts_list) ==
    IF ~IntParses(text) THEN {"Invalid input. Please enter a number"}
    ELSE IF ~(0 <= IntValue(text) - 1 /\ IntValue(text) - 1 < Len(contacts_list))
    THEN {"Invalid contact number"}
    ELSE {}

\* ---- what the user may type
NameLines == {<<>>, <<" ", "A", "l">>, <<"n", "a", "m", "e">>}

PhoneLines == {<<>>, <<"(", "5", ")", " ", "1", "-", "2">>, <<"5", "x">>}

EmailLines == {<<>>, <<"a", "@", "b", ".", "c">>, <<"a", "@", "b">>}

AddressLines == {<<>>, <<"E", "l", "m">>}

FieldLines(f) ==
    IF f = 1 THEN NameLines ELSE IF f = 2 THEN PhoneLines
    ELSE IF f = 3 THEN EmailLines ELSE AddressLines

TermLines == {<<"5", "1", "2">>, <<"A", "L">>, <<"5", ")", "1">>, <<"z">>}

IndexLines == {<<"0">>, <<"1">>, <<" ", "2">>, <<"3">>, <<"-", "1">>, <<"9", "9">>, <<"x">>}

\* ---- CONTACTS_FILE when the session starts
SomeContact(name, address) ==
    [name |-> name, phone |-> <<"(", "5", ")", " ", "1", "-", "2">>,
     email |-> <<"a", "@", "b", ".", "c">>, address |-> address]

TwoContacts ==
    <<SomeContact(<<"A", "l">>, <<>>), SomeContact(<<"n", "a", "m", "e">>, <<"E", "l", "m">>)>>

AbsentCsv ==
    [exists |-> FALSE, readable |-> TRUE, writable |-> TRUE, rows |-> <<>>, bad |-> 0]

CsvFile(rows, readable, writable, bad) ==
    [exists |-> TRUE, readable |-> readable, writable |-> writable, rows |-> rows, bad |-> bad]

InitialContactFiles ==
    { AbsentCsv,
      CsvFile(CsvRows(TwoContacts), TRUE, TRUE, 0),
      CsvFile(CsvRows(TwoContacts), TRUE, FALSE, 0),
      CsvFile(Tail(CsvRows(TwoContacts)), TRUE, TRUE, 0),
      CsvFile(CsvRows(TwoContacts), TRUE, TRUE, 3),
      CsvFile(CsvRows(TwoContacts), FALSE, TRUE, 0) }

NoContact == <<>>

ContactsIdle ==
    /\ cPc = "start" /\ contacts = <<>> /\ contactsFile = AbsentCsv
    /\ new_contact = NoContact /\ contact_index = 0 /\ field = 0 /\ new_value = <<>>
    /\ found_contacts = <<>> /\ term = <<>> /\ index_str = <<>>

ContactsInit ==
    /\ cPc = "start" /\ contacts = <<>>
    /\ contactsFile \in InitialContactFiles
    /\ new_contact = NoContact /\ contact_index = 0 /\ field = 0 /\ new_value = <<>>
    /\ found_contacts = <<>> /\ term = <<>> /\ index_str = <<>>

\* main_menu, line 204
ContactsLoad ==
    /\ app = "contacts" /\ cPc = "start"
    /\ contacts' = LoadContacts(contactsFile)
    /\ out' = IF LoadContactsRaises(contactsFile) THEN {"Error loading contacts"} ELSE {}
    /\ cPc' = "menu"
    /\ UNCHANGED <<app, todoVars, calcVars, rtVars, contactsFile, new_contact,
                   contact_index, field, new_value, found_contacts, term, index_str>>

\* choice '1': view_contact_list
ContactsView ==
    /\ app = "contacts" /\ cPc = "menu"
    /\ \E choice \in MenuLines : Strip(choice) = <<"1">>
    /\ out' = IF contacts = <<>> THEN {"Your Contact Book is empty"} ELSE {"Saved Contact List"}
    /\ found_contacts' = <<>> /\ term' = <<>> /\ index_str' = <<>>
    /\ UNCHANGED <<app, todoVars, calcVars, rtVars, cPc, contacts, contactsFile,
                   new_contact, contact_index, field, new_value>>

\* choice '2': add_contact starts
ContactsAddStart ==
    /\ app = "contacts" /\ cPc = "menu"
    /\ \E choice \in MenuLines : Strip(choice) = <<"2">>
    /\ Len(contacts) < MaxContacts
    /\ cPc' = "add_name"
    /\ out' = {"Adding New Contact"}
    /\ found_contacts' = <<>> /\ term' = <<>> /\ index_str' = <<>>
    /\ UNCHANGED <<app, todoVars, calcVars, rtVars, contacts, contactsFile, new_contact,
                   contact_index, field, new_value>>

\* add_contact, lines 85-87: the field whose prompt the session waits at
AddField == IF cPc = "add_name" THEN 1 ELSE IF cPc = "add_phone" THEN 2 ELSE 3

\* add_contact, lines 85-88: the prompt after field f is accepted
AddPromptAfter(f) ==
    IF f = 1 THEN "add_phone" ELSE IF f = 2 THEN "add_email" ELSE "add_address"

\* a faulty re-entry: a rejected line restarts add_contact at the name
AddPromptNextRestart(f, error) == IF error # {} THEN "add_name" ELSE AddPromptAfter(f)

\* get_validated_input, lines 57-75, called by add_contact: the prompt after a
\* line for field f is read
AddPromptNext(f, error) == IF error # {} THEN cPc ELSE AddPromptAfter(f)

\* add_contact: one pass of get_validated_input's loop for name, phone or email
ContactsAddField ==
    /\ app = "contacts" /\ cPc \in {"add_name", "add_phone", "add_email"}
    /\ \E line \in FieldLines(AddField) :
         LET value == Strip(line)
             error == ValidationError(value, ValidationType(AddField))
         IN /\ out' = error
            /\ cPc' = AddPromptNext(AddField, error)
            /\ new_contact' = IF error # {} THEN new_contact ELSE Append(new_contact, value)
    /\ UNCHANGED <<app, todoVars, calcVars, rtVars, contacts, contactsFile, contact_index,
                   field, new_value, found_contacts, term, index_str>>

\* add_contact: the address, then append and save
ContactsAddAddress ==
    /\ app = "contacts" /\ cPc = "add_address"
    /\ \E line \in AddressLines :
         LET c == [name |-> new_contact[1], phone |-> new_contact[2],
                   email |-> new_contact[3], address |-> Strip(line)]
         IN /\ contacts' = Append(contacts, c)
            /\ contactsFile' = SaveContacts(contactsFile, contacts')
    /\ out' = SaveContactsOut(contactsFile, "Contact added")
    /\ new_contact' = NoContact
    /\ cPc' = "menu"
    /\ UNCHANGED <<app, todoVars, calcVars, rtVars, contact_index, field, new_value,
                   found_contacts, term, index_str>>

\* choice '3': search_contact
ContactsSearch ==
    /\ app = "contacts" /\ cPc = "menu"
    /\ \E choice \in MenuLines : Strip(choice) = <<"3">>
    /\ IF contacts = <<>>
       THEN /\ out' = {"The contact book is empty"}
            /\ found_contacts' = <<>> /\ term' = <<>>
       ELSE \E line \in TermLines :
              /\ term' = Lower(Strip(line))
              /\ found_contacts' = FilterContacts(contacts, term')
              /\ out' = IF found_contacts' = <<>> THEN {"No contacts found"}
                        ELSE {"Contact(s) Found"}
    /\ index_str' = <<>>
    /\ UNCHANGED <<app, todoVars, calcVars, rtVars, cPc, contacts, contactsFile,
                   new_contact, contact_index, field, new_value>>

\* choice '4': update_contact up to its index prompt
ContactsUpdateStart ==
    /\ app = "contacts" /\ cPc = "menu"
    /\ \E choice \in MenuLines : Strip(choice) = <<"4">>
    /\ found_contacts' = <<>> /\ term' = <<>>
    /\ IF contacts = <<>>
       THEN /\ out' = {"Your Contact Book is empty"}
            /\ index_str' = <<>>
            /\ UNCHANGED <<cPc, contact_index, field>>
       ELSE \E line \in IndexLines :
              LET error == IndexError(Strip(line), contacts)
              IN /\ index_str' = Strip(line)
                 /\ out' = {"Saved Contact List", "Enter the number of the contact to update"}
                           \cup error
                 /\ IF error # {}
                    THEN UNCHANGED <<cPc, contact_index, field>>
                    ELSE /\ contact_index' = IntValue(index_str') - 1
                         /\ field' = 1
                         /\ cPc' = "update_field"
    /\ UNCHANGED <<app, todoVars, calcVars, rtVars, contacts, contactsFile, new_contact,
                   new_value>>

\* a faulty update_contact: it returns without save_contacts
UpdateAdvanceNoSave(contacts_now) ==
    IF field < Len(CONTACT_FIELDS)
    THEN /\ field' = field + 1
         /\ cPc' = "update_field"
         /\ out' = {}
         /\ UNCHANGED <<contactsFile, contact_index>>
    ELSE /\ out' = {"Contact updated"}
         /\ field' = 0
         /\ contact_index' = 0
         /\ cPc' = "menu"
         /\ UNCHANGED contactsFile

\* update_contact after the loop body for `field`: the next field, or save and return
UpdateAdvance(contacts_now) ==
    IF field < Len(CONTACT_FIELDS)
    THEN /\ field' = field + 1
         /\ cPc' = "update_field"
         /\ out' = {}
         /\ UNCHANGED <<contactsFile, contact_index>>
    ELSE /\ contactsFile' = SaveContacts(contactsFile, contacts_now)
         /\ out' = SaveContactsOut(contactsFile, "Contact updated")
         /\ field' = 0
         /\ contact_index' = 0
         /\ cPc' = "menu"

\* update_contact: "Enter new <field> ... Press Enter to keep"
ContactsUpdateField ==
    /\ app = "contacts" /\ cPc = "update_field"
    /\ \E line \in FieldLines(field) :
         IF Strip(line) = <<>>
         THEN /\ UNCHANGED <<contacts, new_value>>
              /\ UpdateAdvance(contacts)
         ELSE /\ new_value' = Strip(line)
              /\ cPc' = "update_confirm"
              /\ out' = {}
              /\ UNCHANGED <<contacts, contactsFile, contact_index, field>>
    /\ UNCHANGED <<app, todoVars, calcVars, rtVars, new_contact, found_contacts, term,
                   index_str>>

\* update_contact: one pass of get_validated_input("Confirm new <field>: ")
ContactsUpdateConfirm ==
    /\ app = "contacts" /\ cPc = "update_confirm"
    /\ \E line \in FieldLines(field) :
         LET value == Strip(line)
             error == ValidationError(value, ValidationType(field))
         IN IF error # {}
            THEN /\ out' = error
                 /\ UNCHANGED <<cPc, contacts, contactsFile, contact_index, field, new_value>>
            ELSE /\ contacts' = [contacts EXCEPT
                                    ![contact_index + 1][CONTACT_FIELDS[field]] = value]
                 /\ new_value' = <<>>
                 /\ UpdateAdvance(contacts')
    /\ UNCHANGED <<app, todoVars, calcVars, rtVars, new_contact, found_contacts, term,
                   index_str>>

\* update_contact, lines 168-169: input() raises inside get_validated_input
\* (end of input at the "Confirm" prompt) and the unconfirmed new_value is stored
ContactsUpdateConfirmRaises ==
    /\ app = "contacts" /\ cPc = "update_confirm"
    /\ contacts' = [contacts EXCEPT ![contact_index + 1][CONTACT_FIELDS[field]] = new_value]
    /\ new_value' = <<>>
    /\ UpdateAdvance(contacts')
    /\ UNCHANGED <<app, todoVars, calcVars, rtVars, new_contact, found_contacts, term,
                   index_str>>

\* choice '5': delete_contact
ContactsDelete ==
    /\ app = "contacts" /\ cPc = "menu"
    /\ \E choice \in MenuLines : Strip(choice) = <<"5">>
    /\ found_contacts' = <<>> /\ term' = <<>>
    /\ IF contacts = <<>>
       THEN /\ out' = {"Your Contact Book is empty"}
            /\ index_str' = <<>>
            /\ UNCHANGED <<contacts, contactsFile>>
       ELSE \E line \in IndexLines :
              LET error == IndexError(Strip(line), contacts)
              IN /\ index_str' = Strip(line)
                 /\ IF error # {}
                    THEN /\ out' = {"Saved Contact List",
                                     "Enter the number of the contact to DELETE"} \cup error
                         /\ UNCHANGED <<contacts, contactsFile>>
                    ELSE /\ contacts' = RemoveAt(contacts, IntValue(index_str'))
                         /\ contactsFile' = SaveContacts(contactsFile, contacts')
                         /\ out' = {"Saved Contact List",
                                     "Enter the number of the contact to DELETE"} \cup
                                   SaveContactsOut(contactsFile, "Contact deleted")
    /\ UNCHANGED <<app, todoVars, calcVars, rtVars, cPc, new_contact, contact_index,
                   field, new_value>>

\* choice '6': final save and leave the loop
ContactsExit ==
    /\ app = "contacts" /\ cPc = "menu"
    /\ \E choice \in MenuLines : Strip(choice) = <<"6">>
    /\ contactsFile' = SaveContacts(contactsFile, contacts)
    /\ out' = SaveContactsOut(contactsFile, "Exiting Contact Manager")
    /\ cPc' = "done"
    /\ found_contacts' = <<>> /\ term' = <<>> /\ index_str' = <<>>
    /\ UNCHANGED <<app, todoVars, calcVars, rtVars, contacts, new_contact, contact_index,
                   field, new_value>>

\* any other choice
ContactsInvalidChoice ==
    /\ app = "contacts" /\ cPc = "menu"
    /\ \E choice \in MenuLines :
         Strip(choice) \notin {<<"1">>, <<"2">>, <<"3">>, <<"4">>, <<"5">>, <<"6">>}
    /\ out' = {"Invalid choice"}
    /\ found_contacts' = <<>> /\ term' = <<>> /\ index_str' = <<>>
    /\ UNCHANGED <<app, todoVars, calcVars, rtVars, cPc, contacts, contactsFile,
                   new_contact, contact_index, field, new_value>>

(***************************************************************************)
(* calc.py                                                                 *)
(***************************************************************************)
\* Numbers are exact fractions <<numerator, denominator>>, denominator > 0.
RECURSIVE Gcd(_, _)
Gcd(a, b) == IF b = 0 THEN a ELSE Gcd(b, a % b)

Abs(n) == IF n < 0 THEN 0 - n ELSE n

Fraction(n, d) ==
    LET g == Gcd(Abs(n), Abs(d))
        sign == IF d < 0 THEN 0 - 1 ELSE 1
    IN <<sign * (n \div g), sign * (d \div g)>>

Value(x) == [kind |-> "value", value |-> x]

Raised(exception) == [kind |-> exception, value |-> <<0, 1>>]

add_numbers(a, b) == Value(Fraction(a[1] * b[2] + b[1] * a[2], a[2] * b[2]))

subtract_numbers(a, b) == Value(Fraction(a[1] * b[2] - b[1] * a[2], a[2] * b[2]))

multiply_numbers(a, b) == Value(Fraction(a[1] * b[1], a[2] * b[2]))

divide_numbers(a, b) ==
    IF b[1] = 0 THEN Raised("ZeroDivisionError")
    ELSE Value(Fraction(a[1] * b[2], a[2] * b[1]))

\* floor(log2(n)) for n >= 1
RECURSIVE Log2(_)
Log2(n) == IF n < 2 THEN 0 ELSE 1 + Log2(n \div 2)

\* a ** n for whole a and n >= 0 (0.0 ** 0.0 is 1.0)
RECURSIVE Pow(_, _)
Pow(a, n) ==
    IF n = 0 THEN 1
    ELSE IF n = 1 THEN a
    ELSE IF n % 2 = 0 THEN Pow(a * a, n \div 2)
    ELSE a * Pow(a * a, n \div 2)

\* a ** b on floats, for the whole numbers the model's operands are: 0.0 to a
\* negative power raises ZeroDivisionError, a result beyond the double range
\* (2.0 ** 1024 and above) raises OverflowError
power_numbers(a, b) ==
    IF a[1] = 0 /\ b[1] < 0 THEN Raised("ZeroDivisionError")
    ELSE IF Abs(a[1]) >= 2 /\ b[1] > 0 /\ b[1] * Log2(Abs(a[1])) >= 1024
    THEN Raised("OverflowError")
    ELSE IF b[1] >= 0 THEN Value(<<Pow(a[1], b[1]), 1>>)
    ELSE Value(Fraction(1, Pow(a[1], Abs(b[1]))))

Plus == <<"+">>

Minus == <<"-">>

Times == <<"*">>

Slash == <<"/">>

StarStar == <<"*", "*">>

OPERATION_MAP == {Plus, Minus, Times, Slash, StarStar}

\* calculation_function(number_a, number_b)
Calculate(a, op, b) ==
    IF op = Plus THEN add_numbers(a, b)
    ELSE IF op = Minus THEN subtract_numbers(a, b)
    ELSE IF op = Times THEN multiply_numbers(a, b)
    ELSE IF op = Slash THEN divide_numbers(a, b)
    ELSE power_numbers(a, b)

\* text.lower() in ('exit', 'quit')
IsEscape(text) == Lower(text) \in {<<"e", "x", "i", "t">>, <<"q", "u", "i", "t">>}

\* float(text), for the operand lines of the model: a whole decimal number
\* parses, letters and the empty string raise ValueError
FloatParses(text) == IntParses(text)

FloatValue(text) == <<IntValue(text), 1>>

\* a faulty try block: except ZeroDivisionError alone
CaughtZeroDivisionOnly(exception) == exception = "ZeroDivisionError"

\* the except clauses of the calculation's try block, lines 78-81: whether one
\* of them catches the exception
Caught(exception) == exception \in {"ZeroDivisionError", "OverflowError"}

\* lines 75-81: what is printed for the outcome of the calculation
CalculationOut(res) ==
    IF res.kind = "value" THEN {"Result"}
    ELSE IF res.kind = "ZeroDivisionError" THEN {"Calculation Error"}
    ELSE IF Caught(res.kind) THEN {"An unexpected error occurred"}
    ELSE {"Traceback"}

\* ---- what the user may type
OperandLines ==
    { <<"0">>, <<" ", "2">>, <<"-", "1">>, <<"1", "0", "2", "4">>, <<"a", "b">>, <<>>,
      <<"E", "x", "i", "t">>, <<" ", "q", "u", "i", "t">> }

OperatorLines ==
    { Plus, Minus, Times, Slash, <<" ", "*", "*">>, <<"%">>, <<>>, <<"Q", "U", "I", "T">>,
      <<"e", "x", "i", "t">> }

NoNumber == <<0, 1>>

CalcIdle ==
    /\ kPc = "promptA" /\ last_input = <<>> /\ number_a = NoNumber /\ operation = <<>>
    /\ result = Value(NoNumber) /\ exit_code = 0 - 1

CalcInit == CalcIdle

\* sys.exit(0), caught by the entry point's except SystemExit
CalcExit ==
    /\ kPc' = "exited"
    /\ exit_code' = 0
    /\ out' = {"Calculator closed"}
    /\ UNCHANGED <<number_a, operation, result>>

\* `continue`: back to the start of the loop, the prompt for the first number
ContinueLoop == "promptA"

\* lines 41-48: the first number
CalcOperandA ==
    /\ app = "calc" /\ kPc = "promptA"
    /\ \E line \in OperandLines :
         LET input_a == Strip(line) IN
         /\ last_input' = line
         /\ IF IsEscape(input_a) THEN CalcExit
            ELSE IF ~FloatParses(input_a)
            THEN /\ out' = {"Invalid input for the first number"}
                 /\ kPc' = ContinueLoop
                 /\ UNCHANGED <<number_a, operation, result, exit_code>>
            ELSE /\ number_a' = FloatValue(input_a)
                 /\ kPc' = "promptOp"
                 /\ out' = {}
                 /\ UNCHANGED <<operation, result, exit_code>>
    /\ UNCHANGED <<app, todoVars, contactVars, rtVars>>

\* lines 51-56: the operation symbol
CalcOperator ==
    /\ app = "calc" /\ kPc = "promptOp"
    /\ \E line \in OperatorLines :
         LET op == Strip(line) IN
         /\ last_input' = line
         /\ IF IsEscape(op) THEN CalcExit
            ELSE IF op \notin OPERATION_MAP
            THEN /\ operation' = op
                 /\ out' = {"not a recognized operation"}
                 /\ kPc' = ContinueLoop
                 /\ UNCHANGED <<number_a, result, exit_code>>
            ELSE /\ operation' = op
                 /\ kPc' = "promptB"
                 /\ out' = {}
                 /\ UNCHANGED <<number_a, result, exit_code>>
    /\ UNCHANGED <<app, todoVars, contactVars, rtVars>>

\* lines 59-81: the second number, then the calculation
CalcOperandB ==
    /\ app = "calc" /\ kPc = "promptB"
    /\ \E line \in OperandLines :
         LET input_b == Strip(line) IN
         /\ last_input' = line
         /\ IF IsEscape(input_b) THEN CalcExit
            ELSE IF ~FloatParses(input_b)
            THEN /\ out' = {"Invalid input for the second number"}
                 /\ kPc' = ContinueLoop
                 /\ UNCHANGED <<number_a, operation, result, exit_code>>
            ELSE LET res == Calculate(number_a, operation, FloatValue(input_b)) IN
                 /\ result' = res
                 /\ out' = CalculationOut(res)
                 /\ kPc' = IF res.kind = "value" \/ Caught(res.kind)
                           THEN ContinueLoop ELSE "crashed"
                 /\ exit_code' = IF res.kind = "value" \/ Caught(res.kind)
                                 THEN exit_code ELSE 1
                 /\ UNCHANGED <<number_a, operation>>
    /\ UNCHANGED <<app, todoVars, contactVars, rtVars>>

(***************************************************************************)
(* save followed by load                                                   *)
(***************************************************************************)
MaxRecords == 2

RoundTripContacts ==
    { [name |-> n, phone |-> <<"(", "5", ")", " ", "1", "-", "2">>,
       email |-> <<"a", "@", "b", ".", "c">>, address |-> a] :
        n \in {<<"A", "l">>, <<"n", "a", "m", "e">>}, a \in {<<>>, <<"E", "l", "m">>} }

RoundTripTasks ==
    { [id |-> i, description |-> <<"b", "u", "y">>, done |-> d, created_on |-> Today,
       due_date |-> due] :
        i \in {1, 2}, d \in BOOLEAN,
        due \in {<<>>, <<"2", "0", "2", "5", "-", "0", "2", "-", "2", "8">>} }

ListsOf(S) == UNION {[1..n -> S] : n \in 0..MaxRecords}

RtIdle ==
    /\ rtPc = "input" /\ rtRecords = <<>> /\ rtFile = AbsentCsv /\ rtLoaded = <<>>

RtInit ==
    /\ rtPc = "input" /\ rtLoaded = <<>>
    /\ \/ /\ app = "save_load_contacts"
          /\ rtRecords \in ListsOf(RoundTripContacts)
          /\ rtFile \in {AbsentCsv, CsvFile(CsvRows(TwoContacts), TRUE, TRUE, 0)}
       \/ /\ app = "save_load_tasks"
          /\ rtRecords \in ListsOf(RoundTripTasks)
          /\ rtFile \in {AbsentFile,
                         [AbsentFile EXCEPT !.exists = TRUE, !.doc = JsonDump(FourTasks)]}

RtSaveContacts ==
    /\ app = "save_load_contacts" /\ rtPc = "input"
    /\ rtFile' = SaveContacts(rtFile, rtRecords)
    /\ rtPc' = "saved"
    /\ UNCHANGED <<app, out, todoVars, contactVars, calcVars, rtRecords, rtLoaded>>

RtLoadContacts ==
    /\ app = "save_load_contacts" /\ rtPc = "saved"
    /\ rtLoaded' = LoadContacts(rtFile)
    /\ rtPc' = "loaded"
    /\ UNCHANGED <<app, out, todoVars, contactVars, calcVars, rtRecords, rtFile>>

RtSaveTasks ==
    /\ app = "save_load_tasks" /\ rtPc = "input"
    /\ rtFile' = SaveTasks(rtFile, rtRecords)
    /\ rtPc' = "saved"
    /\ UNCHANGED <<app, out, todoVars, contactVars, calcVars, rtRecords, rtLoaded>>

RtLoadTasks ==
    /\ app = "save_load_tasks" /\ rtPc = "saved"
    /\ rtLoaded' = LoadTasks(rtFile)
    /\ rtPc' = "loaded"
    /\ UNCHANGED <<app, out, todoVars, contactVars, calcVars, rtRecords, rtFile>>

(***************************************************************************)
(* Specifications                                                          *)
(***************************************************************************)
Init ==
    /\ app \in {"calc", "contacts", "todo"}
    /\ out = {}
    /\ IF app = "todo" THEN TodoInit ELSE TodoIdle
    /\ IF app = "contacts" THEN ContactsInit ELSE ContactsIdle
    /\ IF app = "calc" THEN CalcInit ELSE CalcIdle
    /\ RtIdle

Next ==
    \/ TodoLoad
    \/ TodoView
    \/ TodoAdd
    \/ TodoMark
    \/ TodoDelete
    \/ TodoExit
    \/ TodoInvalidChoice
    \/ ContactsLoad
    \/ ContactsView
    \/ ContactsAddStart
    \/ ContactsAddField
    \/ ContactsAddAddress
    \/ ContactsSearch
    \/ ContactsUpdateStart
    \/ ContactsUpdateField
    \/ ContactsUpdateConfirm
    \/ ContactsUpdateConfirmRaises
    \/ ContactsDelete
    \/ ContactsExit
    \/ ContactsInvalidChoice
    \/ CalcOperandA
    \/ CalcOperator
    \/ CalcOperandB

\* one run of one of the three programs
Spec == Init /\ [][Next]_vars

SaveLoadInit ==
    /\ out = {}
    /\ TodoIdle /\ ContactsIdle /\ CalcIdle
    /\ RtInit

SaveLoadNext ==
    \/ RtSaveContacts
    \/ RtLoadContacts
    \/ RtSaveTasks
    \/ RtLoadTasks

\* save applied to a list of records, then load applied to the file it wrote
SaveLoadSpec == SaveLoadInit /\ [][SaveLoadNext]_vars

(***************************************************************************)
(* Claims                                                                  *)
(***************************************************************************)
IdsOf(tasks_list) == [i \in 1..Len(tasks_list) |-> tasks_list[i].id]

DistinctIds(tasks_list) ==
    \A i, j \in 1..Len(tasks_list) : i # j => tasks_list[i].id # tasks_list[j].id

\* a step of add_task that appends a task
TaskAppended == app = "todo" /\ tPc = "menu" /\ Len(tasks') = Len(tasks) + 1

NewTaskId == tasks'[Len(tasks')].id

C2_IdsDistinctAndStable ==
    [][app = "todo" =>
          /\ DistinctIds(tasks')
          /\ TaskAppended =>
                /\ SubSeq(tasks', 1, Len(tasks)) = tasks
                /\ NewTaskId = IF tasks = <<>> THEN 1 ELSE 1 + MaxOf(TaskIds(tasks))
          /\ (tPc = "menu" /\ Len(tasks') = Len(tasks)) => IdsOf(tasks') = IdsOf(tasks)
          /\ (tPc = "menu" /\ Len(tasks') < Len(tasks)) =>
                \E k \in 1..Len(tasks) : tasks' = RemoveAt(tasks, k)]_vars

\* a task was deleted from the middle of a store that holds a task marked done
C2_Witness ==
    /\ app = "todo" /\ IdsOf(tasks) = <<1, 3, 4>> /\ tasks[1].done
    /\ "Task deleted" \in out

\* spaces, dashes and parentheses removed
WithoutSeparators(phone) == Remove(Remove(Remove(Remove(phone, " "), "-"), "("), ")")

\* C3: after a search for a term made of digits only, every contact whose phone
\* holds those digits consecutively once its separators are removed is among
\* the contacts found.
C3_SearchIgnoresSeparators ==
    (app = "contacts" /\ out \cap {"Contact(s) Found", "No contacts found"} # {}
        /\ AllDigits(term)) =>
    \A i \in 1..Len(contacts) :
        Contains(WithoutSeparators(contacts[i].phone), term) =>
            \E j \in 1..Len(found_contacts) : found_contacts[j] = contacts[i]

\* the index prompt of update_contact or delete_contact was answered in this step
IndexGiven ==
    /\ app = "contacts" /\ cPc = "menu" /\ contacts # <<>>
    /\ out' \cap {"Enter the number of the contact to update",
                  "Enter the number of the contact to DELETE"} # {}

\* the text is an integer in 1..n
IsIndexIn(text, n) == IntParses(text) /\ IntValue(text) \in 1..n

\* C4: update_contact and delete_contact, given an index that is not an integer
\* in 1..n, leave the contact list and the file as they were, report an error
\* and return to the menu.
C4_BadIndexChangesNothing ==
    [][(IndexGiven /\ ~IsIndexIn(index_str', Len(contacts))) =>
          /\ contacts' = contacts
          /\ contactsFile' = contactsFile
          /\ out' \cap {"Invalid contact number", "Invalid input. Please enter a number"} # {}
          /\ cPc' = "menu"]_vars

\* index 0 was given to delete_contact for a list of two contacts
C4_Witness ==
    /\ app = "contacts" /\ cPc = "menu" /\ Len(contacts) = 2
    /\ index_str = <<"0">>
    /\ "Enter the number of the contact to DELETE" \in out
    /\ "Invalid contact number" \in out

\* C5: load applied to the file save wrote returns the records saved, with the
\* same field values in the same order.
C5_LoadAfterSave == rtPc = "loaded" => rtLoaded = rtRecords

\* a contact named "name" comes first, another has an empty address
C5_Witness ==
    /\ rtPc = "loaded" /\ app = "save_load_contacts" /\ Len(rtRecords) = 2
    /\ rtRecords[1].name = <<"n", "a", "m", "e">>
    /\ rtRecords[2].address = <<>>
    /\ rtLoaded = rtRecords

\* C6: when load_tasks failed at startup, the session starts empty and, as long
\* as no task is in memory, the backing file holds what it held before the
\* session, after the exit choice too.
C6_FailedLoadKeepsFile ==
    (app = "todo" /\ tLoadFailed /\ tPc # "start") =>
        (tasks = <<>> => todoFile = todoFile0)

\* C7: with a writable file, whenever a handler that changed the collection
\* returns to the menu, and after the exit choice, the file holds exactly the
\* collection in memory.
C7_SavedAtMenu ==
    [][/\ (app = "todo" /\ tPc = "menu" /\ todoFile.writable
              /\ (tasks' # tasks \/ tPc' = "done")) =>
          (todoFile'.exists /\ todoFile'.doc = JsonDump(tasks'))
       /\ (app = "contacts" /\ cPc # "start" /\ cPc' \in {"menu", "done"}
              /\ contactsFile.writable
              /\ (cPc # "menu" \/ contacts' # contacts \/ cPc' = "done")) =>
          (/\ contactsFile'.exists /\ contactsFile'.bad = 0
           /\ contactsFile'.rows = CsvRows(contacts'))]_vars

\* update_contact changed a contact and returned to the menu
C7_Witness ==
    /\ app = "contacts" /\ cPc = "menu" /\ "Contact updated" \in out
    /\ Len(contacts) = 2 /\ contacts[2].name = <<"A", "l">>
    /\ contactsFile.rows = CsvRows(contacts)

EscapeTokens == {<<"e", "x", "i", "t">>, <<"q", "u", "i", "t">>}

Prompts == {"promptA", "promptOp", "promptB"}

ValidationMessages ==
    {"Input cannot be empty", "Invalid email format", "Invalid phone format"}

\* the contact fields: a rejected line is followed by the prompt for the same
\* field, with the fields accepted so far kept
ContactFieldReprompted ==
    /\ (app = "contacts" /\ cPc \in {"add_name", "add_phone", "add_email"}
           /\ out' \cap ValidationMessages # {}) =>
          (cPc' = cPc /\ new_contact' = new_contact /\ contacts' = contacts)
    /\ (app = "contacts" /\ cPc = "update_confirm" /\ out' \cap ValidationMessages # {}) =>
          (cPc' = cPc /\ field' = field /\ contacts' = contacts)

\* the due date: asked once, absent when malformed
DueDateOneShot ==
    (app = "todo" /\ "Invalid date format. Due date not set" \in out') =>
        (TaskAppended /\ tasks'[Len(tasks')].due_date = <<>> /\ tPc' = "menu")

\* C9, as stated: a rejected line is followed by the prompt for the same field,
\* for the calculator's three fields and the contact fields alike.
C9_SameFieldReprompted ==
    [][/\ ContactFieldReprompted
       /\ DueDateOneShot
       /\ (app = "calc" /\ "Invalid input for the first number" \in out') => kPc' = "promptA"
       /\ (app = "calc" /\ "not a recognized operation" \in out') =>
             (kPc' = "promptOp" /\ number_a' = number_a)
       /\ (app = "calc" /\ "Invalid input for the second number" \in out') =>
             (kPc' = "promptB" /\ number_a' = number_a /\ operation' = operation)]_vars

\* C9, amended: a rejected contact name, phone or email and a rejected first
\* number are followed by the prompt for the same field, without a limit; a
\* rejected operator or second number restarts the calculator's request at the
\* first number; the due date is asked once and absent when malformed.
C9_RepromptOrRestart ==
    [][/\ ContactFieldReprompted
       /\ DueDateOneShot
       /\ (app = "calc" /\ kPc = "promptA" /\ ~IsEscape(Strip(last_input'))
              /\ ~FloatParses(Strip(last_input'))) =>
             ("Invalid input for the first number" \in out' /\ kPc' = "promptA")
       /\ (app = "calc" /\ kPc = "promptOp" /\ ~IsEscape(Strip(last_input'))
              /\ Strip(last_input') \notin OPERATION_MAP) =>
             ("not a recognized operation" \in out' /\ kPc' = "promptA")
       /\ (app = "calc" /\ kPc = "promptB" /\ ~IsEscape(Strip(last_input'))
              /\ ~FloatParses(Strip(last_input'))) =>
             ("Invalid input for the second number" \in out' /\ kPc' = "promptA")]_vars

\* a phone was rejected in add_contact and the phone prompt follows, the name kept
C9_Witness ==
    /\ app = "contacts" /\ cPc = "add_phone" /\ "Invalid phone format" \in out
    /\ new_contact = << <<"A", "l">> >>

\* C10: every phone and email add_contact or update_contact stores has passed
\* the validation rule of its field.
C10_StoredFieldsValidated ==
    app = "contacts" =>
        \A i \in 1..Len(contacts) :
            PhoneMatches(contacts[i].phone) /\ EmailMatches(contacts[i].email)
====
